---- MODULE Spec2Model ----
(***************************************************************************)
(* A model of exul's input-event simulation (exul/utilities.py) and of its *)
(* window locator.  The X server is represented by the log of the calls    *)
(* made to window.send_event / display.flush; the transport may raise at a *)
(* chosen submission.  A Python exception is the err field of the          *)
(* execution record: once it is set, the remaining statements of a         *)
(* function are skipped, which is how the exception propagates.            *)
(* The sleep() calls between events change no state and are not modelled.  *)
(***************************************************************************)
EXTENDS Integers, Sequences, FiniteSets, TLC

\* ------------------------------------------------------------ bounds
MaxTokens  == 3   \* "+"-separated tokens in a key spec
MaxRepeat  == 2   \* repeat argument of send_key / scroll_*
MaxCoord   == 1   \* pointer coordinates range over 0..MaxCoord
MaxFailAt  == 4   \* the transport may raise at submission 1..MaxFailAt
MaxBody    == 2   \* calls inside a KeyPressed scope
MaxKeys    == 2   \* length of the list given to send_keys
MaxWindows == 3   \* windows below the root

\* ------------------------------------------------------------ constants
MOUSE_LEFT        == 1
MOUSE_RIGHT       == 2
MOUSE_SCROLL_UP   == 4
MOUSE_SCROLL_DOWN == 5
NotifyNormal      == 0

VARIABLES pc, call, log, result, held

vars == <<pc, call, log, result, held>>

\* ------------------------------------------------------------ transport
NoFail == [at |-> 0, where |-> "send", sticky |-> FALSE]

\* One failure: submission number at raises, inside window.send_event
\* ("send") or inside display.flush ("flush").
Fails == {NoFail} \cup [at : 1..MaxFailAt, where : {"send", "flush"}, sticky : {FALSE}]

\* A failure that may persist (a lost connection): every later submission
\* raises too.
StickyFails == Fails \cup [at : 1..MaxFailAt, where : {"send", "flush"}, sticky : {TRUE}]

TransportRaises(fail, n) ==
    fail.at > 0 /\ (n = fail.at \/ (fail.sticky /\ n > fail.at))

Fresh(fail) == [log |-> <<>>, n |-> 0, err |-> "none", ret |-> <<>>, fail |-> fail]

\* ------------------------------------------------------------ send_event
Event(window, event_type, keycode, x, y, modifiers) ==
    [type |-> event_type, detail |-> keycode, window |-> window,
     root_x |-> 0, root_y |-> 0, event_x |-> x, event_y |-> y,
     state |-> modifiers, same_screen |-> 1]

\* A bug to compare with: the flush is issued even though the submission raised.
send_event_flush_always(st, window, event_type, keycode, x, y, modifiers) ==
    IF st.err # "none" THEN st
    ELSE LET n      == st.n + 1
             raises == TransportRaises(st.fail, n)
         IN  [st EXCEPT !.n   = n,
                        !.log = Append(@, [ev      |-> Event(window, event_type, keycode, x, y, modifiers),
                                           flushed |-> TRUE,
                                           raised  |-> raises]),
                        !.err = IF ~raises THEN "none"
                                ELSE IF st.fail.where = "send" THEN "TransportSend"
                                ELSE "TransportFlush"]

\* window.send_event(event_class(...)) then window.display.flush().
\* The log entry records the submission, whether flush was then called
\* for it, and whether either of the two raised.
send_event(st, window, event_type, keycode, x, y, modifiers) ==
    IF st.err # "none" THEN st
    ELSE LET n        == st.n + 1
             raises   == TransportRaises(st.fail, n)
             accepted == ~(raises /\ st.fail.where = "send")
         IN  [st EXCEPT !.n   = n,
                        !.log = Append(@, [ev      |-> Event(window, event_type, keycode, x, y, modifiers),
                                           flushed |-> accepted,
                                           raised  |-> raises]),
                        !.err = IF ~raises THEN "none"
                                ELSE IF st.fail.where = "send" THEN "TransportSend"
                                ELSE "TransportFlush"]

\* ------------------------------------------------------------ mouse
mouse_down(st, window, x, y, code) ==
    send_event(st, window, "ButtonPress", code, x, y, 0)

mouse_move(st, window, x, y) ==
    send_event(st, window, "MotionNotify", NotifyNormal, x, y, 0)

mouse_up(st, window, x, y, code) ==
    send_event(st, window, "ButtonRelease", code, x, y, 0)

Return(st, value) == IF st.err # "none" THEN st ELSE [st EXCEPT !.ret = value]

\* A bug to compare with: the button is released before it is pressed.
click_swapped(st, window, x, y, code) ==
    Return(mouse_down(mouse_up(mouse_move(st, window, x, y), window, x, y, code),
                      window, x, y, code),
           <<code>>)

click(st, window, x, y, code) ==
    Return(mouse_up(mouse_down(mouse_move(st, window, x, y), window, x, y, code),
                    window, x, y, code),
           <<code>>)

click_left(st, window, x, y) == click(st, window, x, y, MOUSE_LEFT)

click_right(st, window, x, y) == click(st, window, x, y, MOUSE_RIGHT)

RECURSIVE ClickTimes(_, _, _, _, _, _)
\* for _ in range(repeat): click(window, x, y, code=code)
ClickTimes(st, window, x, y, code, n) ==
    IF n <= 0 THEN st
    ELSE ClickTimes(click(st, window, x, y, code), window, x, y, code, n - 1)

scroll_down(st, window, x, y, repeat) ==
    Return(ClickTimes(mouse_move(st, window, x, y), window, x, y, MOUSE_SCROLL_DOWN, repeat),
           <<repeat>>)

\* A bug to compare with: the initial pointer motion is left out.
scroll_up_no_move(st, window, x, y, repeat) ==
    Return(ClickTimes(st, window, x, y, MOUSE_SCROLL_UP, repeat), <<repeat>>)

scroll_up(st, window, x, y, repeat) ==
    Return(ClickTimes(mouse_move(st, window, x, y), window, x, y, MOUSE_SCROLL_UP, repeat),
           <<repeat>>)

\* ------------------------------------------------------------ keys
\* Xlib.XK.string_to_keysym: the keysym of a known name, 0 (NoSymbol) for
\* any other string.
string_to_keysym(name) ==
    CASE name = "a"         -> 97
      [] name = "A"         -> 65
      [] name = "Return"    -> 65293
      [] name = "Shift_L"   -> 65505
      [] name = "Control_L" -> 65507
      [] name = "Alt_L"     -> 65513
      [] OTHER              -> 0

\* DISPLAY.keysym_to_keycode under the usual keyboard mapping: the two
\* keysyms of one physical key ("a" and "A") share its keycode.
keysym_to_keycode(sym) ==
    CASE sym = 97    -> 38
      [] sym = 65    -> 38
      [] sym = 65293 -> 36
      [] sym = 65505 -> 50
      [] sym = 65507 -> 37
      [] sym = 65513 -> 64
      [] OTHER       -> 0

NoSymbolError(character) == "NoSymbol found for character: " \o character

\* The name looked up after the convenience conversions.
Converted(character) ==
    IF character = "Ctrl" THEN "Control"
    ELSE IF character = "Enter" THEN "Return"
    ELSE character

\* A bug to compare with: an unknown name is not rejected.
get_key_code_unchecked(character) ==
    [code |-> keysym_to_keycode(string_to_keysym(Converted(character))), err |-> "none"]

\* Returns the keycode, or raises when the name has no keysym.
get_key_code(character) ==
    LET name == Converted(character)
        sym  == string_to_keysym(name)
    IN  IF sym = 0
        THEN [code |-> 0, err |-> NoSymbolError(name)]
        ELSE [code |-> keysym_to_keycode(sym), err |-> "none"]

key_press(st, window, keycode, modifiers) ==
    send_event(st, window, "KeyPress", keycode, 0, 0, modifiers)

key_release(st, window, keycode, modifiers) ==
    send_event(st, window, "KeyRelease", keycode, 0, 0, modifiers)

\* A key spec is a string, held as the sequence of its chunks: the chunk
\* "+" is the separator character, any other chunk is a run of characters
\* without "+".
RECURSIVE Split(_)
\* key.split('+')
Split(key) ==
    IF key = <<>> THEN <<"">>
    ELSE LET rest == Split(Tail(key))
         IN  IF Head(key) = "+" THEN <<"">> \o rest
             ELSE <<Head(key) \o Head(rest)>> \o Tail(rest)

RECURSIVE Str(_)
\* The string a chunk sequence stands for.
Str(key) == IF key = <<>> THEN "" ELSE Head(key) \o Str(Tail(key))

\* part.capitalize() for the three modifier words.
Capitalize(part) ==
    CASE part = "alt"     -> "Alt"
      [] part = "control" -> "Control"
      [] part = "shift"   -> "Shift"
      [] OTHER            -> part

\* A bug to compare with: only shift is taken for a modifier.
IsModifierWord_shift_only(part) == part = "shift"

IsModifierWord(part) == part \in {"alt", "control", "shift"}

RECURSIVE ParseParts(_, _, _)
\* for part in key.split('+'): ... ; the first unknown name raises.
ParseParts(parts, i, acc) ==
    IF i > Len(parts) \/ acc.err # "none" THEN acc
    ELSE LET part == parts[i]
             got  == IF IsModifierWord(part)
                     THEN get_key_code(Capitalize(part) \o "_L")
                     ELSE get_key_code(part)
         IN  ParseParts(parts, i + 1,
                 IF got.err # "none" THEN [acc EXCEPT !.err = got.err]
                 ELSE IF IsModifierWord(part)
                      THEN [acc EXCEPT !.mods = Append(@, got.code)]
                      ELSE [acc EXCEPT !.primaries = Append(@, got.code)])

_parse_key_string(key) ==
    IF (\A i \in 1..Len(key) : key[i] # "+") \/ key = <<"+">>
    THEN LET got == get_key_code(Str(key))
         IN  IF got.err # "none"
             THEN [primaries |-> <<>>, mods |-> <<>>, err |-> got.err]
             ELSE [primaries |-> <<got.code>>, mods |-> <<>>, err |-> "none"]
    ELSE ParseParts(Split(key), 1, [primaries |-> <<>>, mods |-> <<>>, err |-> "none"])

RECURSIVE PressEach(_, _, _, _, _)
\* for keycode in mods: key_press(window, keycode, modifiers)
PressEach(st, window, codes, modifiers, i) ==
    IF i > Len(codes) THEN st
    ELSE PressEach(key_press(st, window, codes[i], modifiers), window, codes, modifiers, i + 1)

RECURSIVE ReleaseEachForward(_, _, _, _, _)
\* A bug to compare with: the modifiers are released in the order they
\* were pressed.
ReleaseEachForward(st, window, codes, modifiers, i) ==
    IF i < 1 THEN st
    ELSE key_release(ReleaseEachForward(st, window, codes, modifiers, i - 1),
                     window, codes[i], modifiers)

RECURSIVE ReleaseEachReversed(_, _, _, _, _)
\* for keycode in reversed(mods): key_release(window, keycode, modifiers)
ReleaseEachReversed(st, window, codes, modifiers, i) ==
    IF i < 1 THEN st
    ELSE ReleaseEachReversed(key_release(st, window, codes[i], modifiers),
                             window, codes, modifiers, i - 1)

RECURSIVE TapEach_no_release(_, _, _, _, _)
\* A bug to compare with: the primary keys are pressed and never released.
TapEach_no_release(st, window, codes, modifiers, i) ==
    IF i > Len(codes) THEN st
    ELSE TapEach_no_release(key_press(st, window, codes[i], modifiers),
                            window, codes, modifiers, i + 1)

RECURSIVE TapEach(_, _, _, _, _)
\* for keycode in primaries: key_press(...); key_release(...)
TapEach(st, window, codes, modifiers, i) ==
    IF i > Len(codes) THEN st
    ELSE TapEach(key_release(key_press(st, window, codes[i], modifiers),
                             window, codes[i], modifiers),
                 window, codes, modifiers, i + 1)

RECURSIVE TapTimes_short(_, _, _, _, _)
\* A bug to compare with: one repetition too few.
TapTimes_short(st, window, codes, modifiers, n) ==
    IF n <= 1 THEN st
    ELSE TapTimes_short(TapEach(st, window, codes, modifiers, 1),
                        window, codes, modifiers, n - 1)

RECURSIVE TapTimes(_, _, _, _, _)
\* for _ in range(repeat): for keycode in primaries: ...
TapTimes(st, window, codes, modifiers, n) ==
    IF n <= 0 THEN st
    ELSE TapTimes(TapEach(st, window, codes, modifiers, 1), window, codes, modifiers, n - 1)

send_key(st, window, key, repeat, modifiers) ==
    IF st.err # "none" THEN st
    ELSE LET parsed == _parse_key_string(key)
         IN  IF parsed.err # "none" THEN [st EXCEPT !.err = parsed.err]
             ELSE Return(ReleaseEachReversed(
                             TapTimes(PressEach(st, window, parsed.mods, modifiers, 1),
                                      window, parsed.primaries, modifiers, repeat),
                             window, parsed.mods, modifiers, Len(parsed.mods)),
                         <<>>)

RECURSIVE SendEach(_, _, _, _)
\* for key in keys: send_key(window, key)
SendEach(st, window, keys, i) ==
    IF i > Len(keys) THEN st
    ELSE SendEach(send_key(st, window, keys[i], 1, 0), window, keys, i + 1)

send_keys(st, window, keys) == Return(SendEach(st, window, keys, 1), <<Len(keys)>>)

\* ------------------------------------------------------------ KeyPressed
\* The statements a KeyPressed scope may wrap.
BodyMenu ==
    { [op |-> "click_left", key |-> <<>>],
      [op |-> "send_key",   key |-> <<"a">>],
      [op |-> "send_key",   key |-> <<"shift", "+", "a">>],
      [op |-> "send_key",   key |-> <<"zz">>],
      [op |-> "raise",      key |-> <<>>] }

Statement(st, window, s) ==
    IF st.err # "none" THEN st
    ELSE CASE s.op = "click_left" -> click_left(st, window, 0, 0)
           [] s.op = "send_key"   -> send_key(st, window, s.key, 1, 0)
           [] OTHER               -> [st EXCEPT !.err = "UserError"]

RECURSIVE RunBody(_, _, _, _)
RunBody(st, window, body, i) ==
    IF i > Len(body) THEN st
    ELSE RunBody(Statement(st, window, body[i]), window, body, i + 1)

\* __enter__: key_press(self.window, self.code)
KeyPressed_enter(st, window, code) == key_press(st, window, code, 0)

\* A bug to compare with: the release is skipped when the body raised.
KeyPressed_exit_on_success(st, window, code) ==
    IF st.err # "none" THEN st ELSE key_release(st, window, code, 0)

\* __exit__ runs on every exit of the with block; it returns None, so an
\* exception of the body goes on propagating, unless the release itself
\* raises.
KeyPressed_exit(st, window, code) ==
    LET out == key_release([st EXCEPT !.err = "none"], window, code, 0)
    IN  IF out.err # "none" THEN out ELSE [out EXCEPT !.err = st.err]

\* with KeyPressed(window, key): body
WithKeyPressed(st, window, key, body) ==
    LET got == get_key_code(key)
    IN  IF got.err # "none" THEN [st EXCEPT !.err = got.err]
        ELSE LET entered == KeyPressed_enter(st, window, got.code)
             IN  IF entered.err # "none" THEN entered
                 ELSE KeyPressed_exit(RunBody(entered, window, body, 1), window, got.code)

\* ------------------------------------------------------------ window locator
Profiles ==
    { [name |-> "n1", class_type |-> "t1", class_name |-> "c1"],
      [name |-> "n2", class_type |-> "t1", class_name |-> "c2"] }

\* The windows below the root: window i has id i, its parent is the root (0)
\* or an earlier window, and children are listed in ascending order.
TreesOf(n) ==
    { [n |-> n, parent |-> p, attr |-> a] :
        p \in {f \in [1..n -> 0..n] : \A i \in 1..n : f[i] < i},
        a \in [1..n -> Profiles] }

Trees == UNION {TreesOf(n) : n \in 0..MaxWindows}

RECURSIVE Walk(_, _, _, _)
\* windows(): the children of node from child i on, each followed by its
\* own subtree, tagged with its depth.
Walk(tree, node, level, i) ==
    IF i > tree.n THEN <<>>
    ELSE (IF tree.parent[i] = node
          THEN <<[window |-> i, level |-> level]>> \o Walk(tree, i, level + 1, 1)
          ELSE <<>>)
         \o Walk(tree, node, level, i + 1)

windows(tree) == Walk(tree, 0, 0, 1)

Filters ==
    [ window_id   : {<<>>} \cup {<<i>> : i \in 1..(MaxWindows + 1)},
      window_name : {<<>>, <<"n1">>, <<"n2">>},
      class_type  : {<<>>, <<"t1">>, <<"t2">>},
      class_name  : {<<>>, <<"c1">>, <<"c2">>} ]

\* A bug to compare with: the class name filter is ignored.
Matches_without_class_name(tree, w, f) ==
    /\ f.window_id   = <<>> \/ f.window_id[1]   = w
    /\ f.window_name = <<>> \/ f.window_name[1] = tree.attr[w].name
    /\ f.class_type  = <<>> \/ f.class_type[1]  = tree.attr[w].class_type

\* A window matches when every supplied filter equals its attribute.
Matches(tree, w, f) ==
    /\ f.window_id   = <<>> \/ f.window_id[1]   = w
    /\ f.window_name = <<>> \/ f.window_name[1] = tree.attr[w].name
    /\ f.class_type  = <<>> \/ f.class_type[1]  = tree.attr[w].class_type
    /\ f.class_name  = <<>> \/ f.class_name[1]  = tree.attr[w].class_name

RECURSIVE FirstMatch(_, _, _, _)
FirstMatch(tree, order, f, i) ==
    IF i > Len(order) THEN [ret |-> <<>>, err |-> "NotFound"]
    ELSE IF Matches(tree, order[i].window, f)
         THEN [ret |-> <<order[i].window>>, err |-> "none"]
         ELSE FirstMatch(tree, order, f, i + 1)

find_window(tree, f) == FirstMatch(tree, windows(tree), f, 1)

\* ------------------------------------------------------------ state
Tokens == {"", "shift", "alt", "control", "a", "A", "Shift_L", "Ctrl", "zz"}

TokenLists == UNION {[1..n -> Tokens] : n \in 1..MaxTokens}

RECURSIVE Join(_)
\* The chunks of the string '+'.join(tokens).
Join(tokens) ==
    LET first == IF Head(tokens) = "" THEN <<>> ELSE <<Head(tokens)>>
    IN  IF Len(tokens) = 1 THEN first
        ELSE first \o <<"+">> \o Join(Tail(tokens))

\* The specs send_keys and the scopes are tried with.
SampleKeys == {<<"a">>, <<"shift", "+", "a">>, <<"Enter">>, <<"zz">>}

KeyLists == UNION {[1..n -> SampleKeys] : n \in 0..MaxKeys}

Bodies == UNION {[1..n -> BodyMenu] : n \in 0..MaxBody}

KeyNames == {"a", "A", "Shift_L", "Enter", "Ctrl", "zz"}

EventWindows == {1, 2}

Coords == 0..MaxCoord

Buttons == {MOUSE_LEFT, MOUSE_RIGHT, 3, MOUSE_SCROLL_UP, MOUSE_SCROLL_DOWN}

Repeats == 0..MaxRepeat

ModifierMasks == {0, 1}

EmptyTree == [n |-> 0, parent |-> <<>>, attr |-> <<>>]

NoFilters == [window_id |-> <<>>, window_name |-> <<>>, class_type |-> <<>>, class_name |-> <<>>]

NoCall ==
    [op |-> "none", window |-> 0, x |-> 0, y |-> 0, code |-> <<>>, key |-> <<>>,
     tokens |-> <<>>, name |-> "", fail |-> NoFail, repeat |-> 0, modifiers |-> 0, keys |-> <<>>, body |-> <<>>,
     tree |-> EmptyTree, filters |-> NoFilters]

EmptyHeld == [k \in {} |-> 0]

Count(h, k) == IF k \in DOMAIN h THEN h[k] ELSE 0

Bump(h, k, d) ==
    LET v == Count(h, k) + d
    IN  IF v = 0 THEN [j \in DOMAIN h \ {k} |-> h[j]]
        ELSE [j \in DOMAIN h \cup {k} |-> IF j = k THEN v ELSE h[j]]

\* The key or button an event presses (+1) or releases (-1).
HeldKey(ev) ==
    IF ev.type \in {"KeyPress", "KeyRelease"} THEN <<"key", ev.detail>>
    ELSE <<"button", ev.detail>>

Delta(ev) ==
    CASE ev.type \in {"KeyPress", "ButtonPress"}     -> 1
      [] ev.type \in {"KeyRelease", "ButtonRelease"} -> -1
      [] OTHER                                       -> 0

RECURSIVE Apply(_, _, _)
\* What the target holds down after the submitted events of a log.
Apply(h, entries, i) ==
    IF i > Len(entries) THEN h
    ELSE Apply(IF entries[i].flushed /\ Delta(entries[i].ev) # 0
               THEN Bump(h, HeldKey(entries[i].ev), Delta(entries[i].ev))
               ELSE h,
               entries, i + 1)

Init ==
    /\ pc = "idle"
    /\ call = NoCall
    /\ log = <<>>
    /\ result = [err |-> "none", ret |-> <<>>]
    /\ held = EmptyHeld

Finish(c, st) ==
    /\ pc' = IF st.err = "none" THEN "returned" ELSE "raised"
    /\ call' = c
    /\ log' = st.log
    /\ result' = [err |-> st.err, ret |-> st.ret]
    /\ held' = Apply(held, st.log, 1)

Click ==
    /\ pc = "idle"
    /\ \E w \in EventWindows, x \in Coords, y \in Coords, fail \in Fails,
       code \in {<<>>} \cup {<<b>> : b \in Buttons} :
        Finish([NoCall EXCEPT !.op = "click", !.window = w, !.x = x, !.y = y, !.code = code],
               click(Fresh(fail), w, x, y, IF code = <<>> THEN MOUSE_LEFT ELSE code[1]))

ClickLeft ==
    /\ pc = "idle"
    /\ \E w \in EventWindows, x \in Coords, y \in Coords, fail \in Fails :
        Finish([NoCall EXCEPT !.op = "click_left", !.window = w, !.x = x, !.y = y],
               click_left(Fresh(fail), w, x, y))

ClickRight ==
    /\ pc = "idle"
    /\ \E w \in EventWindows, x \in Coords, y \in Coords, fail \in Fails :
        Finish([NoCall EXCEPT !.op = "click_right", !.window = w, !.x = x, !.y = y],
               click_right(Fresh(fail), w, x, y))

ScrollDown ==
    /\ pc = "idle"
    /\ \E w \in EventWindows, x \in Coords, y \in Coords, n \in Repeats, fail \in Fails :
        Finish([NoCall EXCEPT !.op = "scroll_down", !.window = w, !.x = x, !.y = y, !.repeat = n],
               scroll_down(Fresh(fail), w, x, y, n))

ScrollUp ==
    /\ pc = "idle"
    /\ \E w \in EventWindows, x \in Coords, y \in Coords, n \in Repeats, fail \in Fails :
        Finish([NoCall EXCEPT !.op = "scroll_up", !.window = w, !.x = x, !.y = y, !.repeat = n],
               scroll_up(Fresh(fail), w, x, y, n))

ParseKeyString ==
    /\ pc = "idle"
    /\ \E tokens \in TokenLists :
        LET key    == Join(tokens)
            parsed == _parse_key_string(key)
        IN  Finish([NoCall EXCEPT !.op = "_parse_key_string", !.key = key, !.tokens = tokens],
                   [Fresh(NoFail) EXCEPT !.err = parsed.err,
                                         !.ret = <<parsed.primaries, parsed.mods>>])

SendKey ==
    /\ pc = "idle"
    /\ \E tokens \in TokenLists, n \in Repeats, m \in ModifierMasks :
       \* the transport is reached only when the spec has parsed
       \E fail \in (IF _parse_key_string(Join(tokens)).err = "none" THEN Fails ELSE {NoFail}) :
        Finish([NoCall EXCEPT !.op = "send_key", !.window = 1, !.key = Join(tokens),
                              !.tokens = tokens, !.repeat = n, !.modifiers = m],
               send_key(Fresh(fail), 1, Join(tokens), n, m))

SendKeys ==
    /\ pc = "idle"
    /\ \E keys \in KeyLists, fail \in Fails :
        Finish([NoCall EXCEPT !.op = "send_keys", !.window = 1, !.keys = keys],
               send_keys(Fresh(fail), 1, keys))

KeyPressedScope ==
    /\ pc = "idle"
    /\ \E name \in KeyNames, body \in Bodies, fail \in StickyFails :
        Finish([NoCall EXCEPT !.op = "KeyPressed", !.window = 1, !.name = name, !.body = body,
                              !.fail = fail],
               WithKeyPressed(Fresh(fail), 1, name, body))

FindWindow ==
    /\ pc = "idle"
    /\ \E tree \in Trees, f \in Filters :
        LET found == find_window(tree, f)
        IN  Finish([NoCall EXCEPT !.op = "find_window", !.tree = tree, !.filters = f],
                   [Fresh(NoFail) EXCEPT !.err = found.err, !.ret = found.ret])

\* The caller goes on to its next statement after a call that returned;
\* nothing of the call is retained but what the target still holds down.
\* An exception is not caught anywhere: it ends the run.
NextCall ==
    /\ pc = "returned"
    /\ pc' = "idle"
    /\ call' = NoCall
    /\ log' = <<>>
    /\ result' = [err |-> "none", ret |-> <<>>]
    /\ UNCHANGED held

\* The input composers and the key-hold scope.
Next ==
    \/ Click
    \/ ClickLeft
    \/ ClickRight
    \/ ScrollDown
    \/ ScrollUp
    \/ SendKey
    \/ SendKeys
    \/ KeyPressedScope
    \/ NextCall

Spec == Init /\ [][Next]_vars

\* The key-spec parser on its own.
NextParse == ParseKeyString \/ NextCall

SpecParse == Init /\ [][NextParse]_vars

\* The window locator on its own.
NextFind == FindWindow \/ NextCall

SpecFind == Init /\ [][NextFind]_vars

\* ------------------------------------------------------------ properties
\* What a key spec means, read off its tokens.
IsMod(t) == t \in {"alt", "control", "shift"}

NotMod(t) == ~IsMod(t)

LeftVariant(t) ==
    CASE t = "alt"     -> "Alt_L"
      [] t = "control" -> "Control_L"
      [] t = "shift"   -> "Shift_L"

\* The spec has no "+", or is exactly "+".
Whole(tokens) == Len(tokens) = 1 \/ tokens = <<"", "">>

WholeName(tokens) == IF Len(tokens) = 1 THEN tokens[1] ELSE "+"

CodeOfName(name) == keysym_to_keycode(string_to_keysym(Converted(name)))

Known(name) == string_to_keysym(Converted(name)) # 0

\* The names looked up for a spec, in the order of its tokens.
LookedUp(tokens) ==
    IF Whole(tokens) THEN <<WholeName(tokens)>>
    ELSE [i \in 1..Len(tokens) |-> IF IsMod(tokens[i]) THEN LeftVariant(tokens[i]) ELSE tokens[i]]

Resolves(tokens) == \A i \in 1..Len(LookedUp(tokens)) : Known(LookedUp(tokens)[i])

ModNames(tokens) ==
    IF Whole(tokens) THEN <<>>
    ELSE LET m == SelectSeq(tokens, IsMod) IN [i \in 1..Len(m) |-> LeftVariant(m[i])]

PrimNames(tokens) ==
    IF Whole(tokens) THEN <<WholeName(tokens)>> ELSE SelectSeq(tokens, NotMod)

ModCodes(tokens) == [i \in 1..Len(ModNames(tokens)) |-> CodeOfName(ModNames(tokens)[i])]

PrimCodes(tokens) == [i \in 1..Len(PrimNames(tokens)) |-> CodeOfName(PrimNames(tokens)[i])]

IsKey(e, type, code) ==
    /\ e.type = type
    /\ e.detail = code
    /\ e.window = call.window
    /\ e.state = call.modifiers
    /\ e.event_x = 0 /\ e.event_y = 0

IsPointer(e, type, detail) ==
    /\ e.type = type
    /\ e.detail = detail
    /\ e.window = call.window
    /\ e.event_x = call.x /\ e.event_y = call.y
    /\ e.state = 0

Occ(seq, c) == Cardinality({i \in 1..Len(seq) : seq[i] = c})

Presses(c) == Cardinality({i \in 1..Len(log) : log[i].ev.type = "KeyPress" /\ log[i].ev.detail = c})

Releases(c) == Cardinality({i \in 1..Len(log) : log[i].ev.type = "KeyRelease" /\ log[i].ev.detail = c})

\* Presses minus releases of keycode c among the first i - 1 events.
HeldBefore(i, c) ==
    Cardinality({j \in 1..(i - 1) : log[j].ev.type = "KeyPress" /\ log[j].ev.detail = c})
    - Cardinality({j \in 1..(i - 1) : log[j].ev.type = "KeyRelease" /\ log[j].ev.detail = c})

SendKeyReturned == call.op = "send_key" /\ pc = "returned"

\* C1: for a key spec with modifiers m1..mk and at least one primary key,
\* the events of send_key are press(m1), ..., press(mk), then only events
\* of primary keys, then release(mk), ..., release(m1).
C1_ModifiersBracketPrimaries ==
    (SendKeyReturned /\ PrimCodes(call.tokens) # <<>>) =>
        LET mods  == ModCodes(call.tokens)
            prims == PrimCodes(call.tokens)
            k     == Len(mods)
            L     == Len(log)
        IN  /\ L = 2 * k + 2 * call.repeat * Len(prims)
            /\ \A i \in 1..k :
                /\ IsKey(log[i].ev, "KeyPress", mods[i])
                /\ IsKey(log[L + 1 - i].ev, "KeyRelease", mods[i])
            /\ \A i \in (k + 1)..(L - k) :
                /\ log[i].ev.type \in {"KeyPress", "KeyRelease"}
                /\ \E j \in 1..Len(prims) : log[i].ev.detail = prims[j]

\* "shift+alt+a": press(Shift_L), press(Alt_L), press(a), release(a),
\* release(Alt_L), release(Shift_L).
C1_Witness ==
    /\ SendKeyReturned
    /\ call.tokens = <<"shift", "alt", "a">>
    /\ call.repeat = 1
    /\ [i \in 1..Len(log) |-> <<log[i].ev.type, log[i].ev.detail>>]
         = << <<"KeyPress", 50>>, <<"KeyPress", 64>>, <<"KeyPress", 38>>,
              <<"KeyRelease", 38>>, <<"KeyRelease", 64>>, <<"KeyRelease", 50>> >>

\* The primary section: repeat rounds over the primaries, each key pressed
\* and at once released, with every modifier down at each of these events.
PrimarySectionOK ==
    LET mods  == ModCodes(call.tokens)
        prims == PrimCodes(call.tokens)
        k     == Len(mods)
        P     == Len(prims)
    IN  /\ Len(log) = 2 * k + 2 * call.repeat * P
        /\ \A j \in 1..(call.repeat * P) :
            /\ IsKey(log[k + 2 * j - 1].ev, "KeyPress", prims[((j - 1) % P) + 1])
            /\ IsKey(log[k + 2 * j].ev, "KeyRelease", prims[((j - 1) % P) + 1])
        /\ \A i \in (k + 1)..(Len(log) - k) : \A m \in 1..k : HeldBefore(i, mods[m]) >= 1

ClickReturned == call.op = "click" /\ pc = "returned"

GivenCode == IF call.code = <<>> THEN MOUSE_LEFT ELSE call.code[1]

ScrollReturned == call.op \in {"scroll_up", "scroll_down"} /\ pc = "returned"

ScrollCode == IF call.op = "scroll_up" THEN MOUSE_SCROLL_UP ELSE MOUSE_SCROLL_DOWN

Motions == {i \in 1..Len(log) : log[i].ev.type = "MotionNotify"}

\* C5 as stated: one motion event, then repeat press/release cycles of the
\* scroll button, no other motion event, and repeat is returned.
C5_AsStated ==
    ScrollReturned =>
        /\ Len(log) = 1 + 2 * call.repeat
        /\ Motions = {1}
        /\ \A j \in 1..call.repeat :
            /\ IsPointer(log[2 * j].ev, "ButtonPress", ScrollCode)
            /\ IsPointer(log[2 * j + 1].ev, "ButtonRelease", ScrollCode)
        /\ result.ret = <<call.repeat>>

\* C5, amended: one motion event, then repeat click cycles of the scroll
\* button, each of them a motion, a press and a release at (x, y): the
\* trace holds repeat + 1 motion events; repeat is returned.
C5_ScrollIsMoveThenClicks ==
    ScrollReturned =>
        /\ Len(log) = 1 + 3 * call.repeat
        /\ IsPointer(log[1].ev, "MotionNotify", NotifyNormal)
        /\ \A j \in 1..call.repeat :
            /\ IsPointer(log[3 * j - 1].ev, "MotionNotify", NotifyNormal)
            /\ IsPointer(log[3 * j].ev, "ButtonPress", ScrollCode)
            /\ IsPointer(log[3 * j + 1].ev, "ButtonRelease", ScrollCode)
        /\ Cardinality(Motions) = call.repeat + 1
        /\ result.ret = <<call.repeat>>

C5_Witness ==
    /\ call.op = "scroll_up" /\ pc = "returned"
    /\ call.repeat = 2
    /\ Len(log) = 7
    /\ Motions = {1, 2, 5}
    /\ result.ret = <<2>>

Finished == pc \in {"returned", "raised"}

\* The first looked-up name of a spec that has no keysym.
FirstUnknown(tokens) ==
    LET names == LookedUp(tokens)
        i     == CHOOSE i \in 1..Len(names) :
                     ~Known(names[i]) /\ \A j \in 1..(i - 1) : Known(names[j])
    IN  names[i]

KeyTokens == IF call.op = "KeyPressed" THEN <<call.name>> ELSE call.tokens

\* C8 as stated: when a token of the key does not resolve, the call raises
\* the invalid-key error naming that token, and has sent no event.
C8_AsStated ==
    (call.op \in {"send_key", "KeyPressed"} /\ Finished /\ ~Resolves(KeyTokens)) =>
        /\ pc = "raised"
        /\ log = <<>>
        /\ \E i \in 1..Len(LookedUp(KeyTokens)) :
            /\ ~Known(LookedUp(KeyTokens)[i])
            /\ result.err = NoSymbolError(LookedUp(KeyTokens)[i])

\* C8, amended: the error names the name that was looked up for the first
\* token that does not resolve, which is the token after the Ctrl ->
\* Control and Enter -> Return conversion; no event has been sent.
C8_InvalidKeyRaisesBeforeAnyEvent ==
    (call.op \in {"send_key", "KeyPressed"} /\ Finished /\ ~Resolves(KeyTokens)) =>
        /\ pc = "raised"
        /\ log = <<>>
        /\ held = EmptyHeld
        /\ result.err = NoSymbolError(Converted(FirstUnknown(KeyTokens)))

\* "shift+zz": nothing is sent, shift is not pressed.
C8_Witness ==
    /\ call.op = "send_key"
    /\ call.tokens = <<"shift", "zz">>
    /\ call.repeat = 1
    /\ pc = "raised"
    /\ result.err = "NoSymbol found for character: zz"
    /\ log = <<>>

TransportFailed == pc = "raised" /\ result.err \in {"TransportSend", "TransportFlush"}

\* The log of the same call over a transport that never raises.
FailureFreeLog ==
    CASE call.op = "click" ->
            click(Fresh(NoFail), call.window, call.x, call.y, GivenCode).log
      [] call.op = "click_left" ->
            click_left(Fresh(NoFail), call.window, call.x, call.y).log
      [] call.op = "click_right" ->
            click_right(Fresh(NoFail), call.window, call.x, call.y).log
      [] call.op = "scroll_up" ->
            scroll_up(Fresh(NoFail), call.window, call.x, call.y, call.repeat).log
      [] call.op = "scroll_down" ->
            scroll_down(Fresh(NoFail), call.window, call.x, call.y, call.repeat).log
      [] call.op = "send_key" ->
            send_key(Fresh(NoFail), call.window, call.key, call.repeat, call.modifiers).log

Composers == {"click", "click_left", "click_right", "scroll_up", "scroll_down", "send_key"}

\* C9: when the transport raises inside click, scroll_up, scroll_down or
\* send_key, the failure propagates: the failed submission is the last one
\* (no retry, no later event), no flush is issued for an event whose
\* submission raised, and the events before it are a strict prefix of the
\* failure-free trace.
C9_TransportFailurePropagates ==
    (call.op \in Composers /\ TransportFailed) =>
        LET L  == Len(log)
            ff == FailureFreeLog
        IN  /\ L >= 1
            /\ log[L].raised
            /\ result.err = "TransportSend" => ~log[L].flushed
            /\ \A i \in 1..(L - 1) : ~log[i].raised /\ log[i].flushed
            /\ L <= Len(ff)
            /\ \A i \in 1..L : log[i].ev = ff[i].ev

\* send_key "shift+a" whose third submission raises: shift stays pressed.
C9_Witness ==
    /\ call.op = "send_key"
    /\ call.tokens = <<"shift", "a">>
    /\ call.repeat = 1
    /\ result.err = "TransportSend"
    /\ pc = "raised"
    /\ Len(log) = 3
    /\ ~log[3].flushed
    /\ held = (<<"key", 38>> :> 1) @@ (<<"key", 50>> :> 1)

ScopeEntered == call.op = "KeyPressed" /\ Finished /\ Len(log) >= 1 /\ ~log[1].raised

ScopeCode == CodeOfName(call.name)

IsScopeKey(e, type) ==
    /\ e.type = type
    /\ e.detail = ScopeCode
    /\ e.window = call.window
    /\ e.state = 0

\* What the wrapped statements submit on their own, after the entry press.
BodyLog == RunBody([Fresh(call.fail) EXCEPT !.n = 1], call.window, call.body, 1).log

\* C3: after a successful entry press, the scope submits exactly one
\* release of the same keycode, on exit, after every event of the body,
\* whether the body completes or raises; it submits none before.
C3_ScopeReleasesOnExit ==
    ScopeEntered =>
        /\ IsScopeKey(log[1].ev, "KeyPress")
        /\ Len(log) = Len(BodyLog) + 2
        /\ SubSeq(log, 2, Len(log) - 1) = BodyLog
        /\ IsScopeKey(log[Len(log)].ev, "KeyRelease")

\* A scope around click_left and a raise: press, the click, release.
C3_Witness ==
    /\ call.op = "KeyPressed"
    /\ call.name = "a"
    /\ call.body = <<[op |-> "click_left", key |-> <<>>], [op |-> "raise", key |-> <<>>]>>
    /\ pc = "raised"
    /\ result.err = "UserError"
    /\ Len(log) = 5
    /\ log[5].ev.type = "KeyRelease" /\ log[5].ev.detail = 38 /\ log[5].flushed
    /\ held = EmptyHeld

InputOps == Composers \cup {"send_keys", "KeyPressed"}

\* Presses minus releases of the key or button k among the first i - 1
\* events of the log.
Down(i, k) ==
    Cardinality({j \in 1..(i - 1) : Delta(log[j].ev) = 1 /\ HeldKey(log[j].ev) = k})
    - Cardinality({j \in 1..(i - 1) : Delta(log[j].ev) = -1 /\ HeldKey(log[j].ev) = k})

NeverReleasedUnheld ==
    \A i \in 1..Len(log) : Delta(log[i].ev) = -1 => Down(i, HeldKey(log[i].ev)) >= 1

NeverPressedHeld ==
    \A i \in 1..Len(log) : Delta(log[i].ev) = 1 => Down(i, HeldKey(log[i].ev)) = 0

RepressesHeldKey ==
    /\ call.op = "send_key"
    /\ LET mods  == ModCodes(call.tokens)
           prims == PrimCodes(call.tokens)
       IN  \/ \E i, j \in 1..Len(mods) : i # j /\ mods[i] = mods[j]
           \/ call.repeat >= 1 /\ \E i \in 1..Len(mods), j \in 1..Len(prims) : mods[i] = prims[j]

FindDone == call.op = "find_window" /\ Finished

FilterFields == {"window_id", "window_name", "class_type", "class_name"}

AttributesOf(w) ==
    [window_id   |-> w,
     window_name |-> call.tree.attr[w].name,
     class_type  |-> call.tree.attr[w].class_type,
     class_name  |-> call.tree.attr[w].class_name]

\* The windows of the tree whose attributes equal every supplied filter.
Matching ==
    {w \in 1..call.tree.n :
        \A f \in FilterFields : call.filters[f] = <<>> \/ call.filters[f] = <<AttributesOf(w)[f]>>}

Position(order, w) == CHOOSE i \in 1..Len(order) : order[i].window = w

\* C7: find returns a window that equals every supplied filter, the first
\* such window in traversal order, and fails with NotFound exactly when no
\* window of the tree matches all the supplied filters.
C7_FindReturnsFirstMatch ==
    FindDone =>
        LET order == windows(call.tree)
            match == Matching
        IN  /\ Len(order) = call.tree.n
            /\ IF match = {}
               THEN pc = "raised" /\ result.err = "NotFound"
               ELSE /\ pc = "returned"
                    /\ Len(result.ret) = 1
                    /\ result.ret[1] \in match
                    /\ \A v \in match : Position(order, result.ret[1]) <= Position(order, v)

\* Windows 2 and 3 both match; 3, a child of 1, is enumerated before 2.
C7_Witness ==
    /\ FindDone
    /\ call.tree.n = 3
    /\ call.tree.parent = <<0, 0, 1>>
    /\ call.filters.window_name = <<"n2">>
    /\ call.filters.class_name = <<"c2">>
    /\ Matching = {2, 3}
    /\ result.ret = <<3>>

====
